---- MODULE Spec2Model ----
(***************************************************************************)
(* SOCrates detection pipeline: parse -> Tier 1 rules -> Tier 2 isolation  *)
(* forest -> Tier 3 fusion, as implemented under backend/src/socrates.     *)
(*                                                                         *)
(* Conventions of the model                                                *)
(*  - a Python str that the code splits or compares (src_ip, url, domain)  *)
(*    is a sequence of code points, so that str.split("/") and the tuple   *)
(*    order of (src_ip, domain) are computed and not assumed;              *)
(*  - a datetime is its number of seconds since a midnight;                *)
(*  - numpy float arithmetic is exact rational arithmetic on integers:     *)
(*    every threshold test is cross-multiplied, every round(x, 4) is an    *)
(*    integer in units of 1/10000;                                         *)
(*  - wall-clock timings of PipelineResult are left out.                   *)
(***************************************************************************)
EXTENDS Integers, Sequences, FiniteSets, TLC

VARIABLES
    file,                 \* the CSV on disk: [has_header, fieldnames, rows]
    model_exists,         \* MODEL_PATH.exists()
    forest,               \* the loaded artifact: feature row -> raw score
    pc,                   \* position of _run_pipeline_task / run_pipeline
    logs,                 \* parse_log_file's return value
    tier1_results,        \* run_tier1's return value
    tier1_critical_keys,  \* the skip set handed to run_tier2
    tier2_results,        \* run_tier2's return value
    tier3_results,        \* run_tier3's return value
    result,               \* << the PipelineResult returned >>, << >> before
    error,                \* the exception run_pipeline raised, or None
    run,                  \* 1 for the first invocation, 2 for the second
    first,                \* << what the first invocation read and returned >>
    same_input,           \* the second invocation reads the file unchanged
    use_mock,             \* the module global USE_MOCK of tier3_agent
    scaler_features,      \* the feature count the artifact was fitted with
    job,                  \* the Job of the store: [status, result, error]
    raised_in,            \* the stage whose call raised, or None
    on_disk,              \* the uploaded file exists under upload_dir
    polled,               \* << what the last poll of the job read >>, or << >>
    deviations,           \* get_top_features: |scaled| of one vector, per feature
    top_idx               \* get_top_features: << the indices it returns >>, or << >>

vars == << file, model_exists, forest, pc, logs, tier1_results,
           tier1_critical_keys, tier2_results, tier3_results, result, error,
           run, first, same_input, use_mock, scaler_features, job, raised_in,
           on_disk, polled, deviations, top_idx >>

None == "None"

(***************************************************************************)
(* Sequence helpers                                                        *)
(***************************************************************************)
Range(s) == { s[i] : i \in DOMAIN s }

\* a function on 1..n as an explicit tuple (concatenation builds one)
TupleOf(f) == f \o << >>

\* recursion by halves keeps the evaluation shallow on long sequences
RECURSIVE SumRange(_, _, _)
SumRange(s, lo, hi) ==
    IF lo > hi THEN 0
    ELSE IF lo = hi THEN s[lo]
    ELSE LET mid == (lo + hi) \div 2
         IN  SumRange(s, lo, mid) + SumRange(s, mid + 1, hi)

SumSeq(s) == SumRange(s, 1, Len(s))

SumSq(s) == SumSeq(TupleOf([ i \in 1..Len(s) |-> s[i] * s[i] ]))

Reverse(s) == TupleOf([ i \in 1..Len(s) |-> s[Len(s) + 1 - i] ])

\* Python's list.sort / sorted: stable.  Before(h, x) says that h may stand
\* ahead of x (key(h) <= key(x), or >= under reverse=True); an element is
\* preceded by the elements strictly ahead of it and by the equal ones that
\* were met earlier.
StableSort(Before(_, _), s) ==
    LET n == Len(s)
        Ahead(j, i) ==
            /\ Before(s[j], s[i])
            /\ j < i \/ ~Before(s[i], s[j])
        rank == TupleOf([ i \in 1..n |-> 1 + Cardinality({ j \in 1..n : j # i /\ Ahead(j, i) }) ])
    IN  IF \A i \in 1..(n - 1) : Before(s[i], s[i + 1])
        THEN s
        ELSE TupleOf([ r \in 1..n |-> s[CHOOSE i \in 1..n : rank[i] = r] ])

\* the permutations of a finite set, as sequences
RECURSIVE Perms(_)
Perms(S) ==
    IF S = {} THEN { << >> }
    ELSE UNION { { << x >> \o p : p \in Perms(S \ {x}) } : x \in S }

\* str comparison: lexicographic on code points
RECURSIVE StrLess(_, _)
StrLess(a, b) ==
    IF b = << >> THEN FALSE
    ELSE IF a = << >> THEN TRUE
    ELSE IF Head(a) # Head(b) THEN Head(a) < Head(b)
    ELSE StrLess(Tail(a), Tail(b))

\* tuple comparison of two (src_ip, domain) keys
KeyLess(k1, k2) ==
    \/ StrLess(k1[1], k2[1])
    \/ k1[1] = k2[1] /\ StrLess(k1[2], k2[2])

(***************************************************************************)
(* str.split                                                               *)
(***************************************************************************)
Slash == 47

\* index of the first "/" of a url, 0 when there is none
FirstSlash(url) ==
    IF \E i \in DOMAIN url : url[i] = Slash
    THEN CHOOSE i \in DOMAIN url :
            url[i] = Slash /\ \A j \in 1..(i - 1) : url[j] # Slash
    ELSE 0

\* entry.url.split("/")[0]
DomainOf(url) ==
    IF FirstSlash(url) = 0 THEN url ELSE SubSeq(url, 1, FirstSlash(url) - 1)

\* e.url.split("/", 1)[-1]: the last piece of at most two pieces
PathOf(url) ==
    IF FirstSlash(url) = 0 THEN url
    ELSE SubSeq(url, FirstSlash(url) + 1, Len(url))

KeyOf(entry) == << entry.src_ip, DomainOf(entry.url) >>

(***************************************************************************)
(* services/parser.py.  A file is the fieldnames csv.DictReader reads     *)
(* (has_header is false for an empty file, whose fieldnames is None) and   *)
(* its rows.  A row carries the cells the pipeline reads, parsed, and the  *)
(* names of the cells whose text int() or strptime() rejects.              *)
(***************************************************************************)
REQUIRED_COLUMNS ==
    << "timestamp", "username", "department", "src_ip", "dst_ip",
       "protocol", "http_method", "url", "status_code",
       "bytes_sent", "bytes_received", "action", "url_category",
       "threat_category", "risk_score", "user_agent" >>

FullHeader == Range(REQUIRED_COLUMNS)

\* MissingColumns that looks for the first required column only
MissingColumnsFirstOnly(fieldnames) ==
    SelectSeq(SubSeq(REQUIRED_COLUMNS, 1, 1), LAMBDA c : c \notin fieldnames)

\* the [c for c in REQUIRED_COLUMNS if c not in reader.fieldnames] of parse_log_file
MissingColumns(fieldnames) ==
    SelectSeq(REQUIRED_COLUMNS, LAMBDA c : c \notin fieldnames)

\* RowRaises that looks at the integer cells only
RowRaisesIntegersOnly(row) ==
    row.unparsable \cap { "status_code", "bytes_sent", "bytes_received", "risk_score" } # {}

\* the body of the try: of the row loop raises
RowRaises(row) ==
    row.unparsable \cap { "timestamp", "status_code", "bytes_sent",
                          "bytes_received", "risk_score" } # {}

LogEntry(row) ==
    [ timestamp |-> row.timestamp, username |-> row.username,
      src_ip |-> row.src_ip, url |-> row.url, bytes_sent |-> row.bytes_sent ]

\* the rows that reach entries.append, in input order
ParseRows(rows) ==
    LET kept == SelectSeq(rows, LAMBDA row : ~RowRaises(row))
    IN  TupleOf([ i \in 1..Len(kept) |-> LogEntry(kept[i]) ])

\* parse_log_file: [raised, entries]
parse_log_file(f) ==
    IF ~f.has_header
        THEN [ raised |-> "TypeError", entries |-> << >> ]
    ELSE IF MissingColumns(f.fieldnames) # << >>
        THEN [ raised |-> "ValueError", entries |-> << >> ]
    ELSE [ raised |-> None, entries |-> ParseRows(f.rows) ]

(***************************************************************************)
(* Grouping shared by run_tier1 and extract_features: a dict keyed by      *)
(* (src_ip, domain) keeps its keys in the order of first insertion.        *)
(***************************************************************************)
\* the key of every entry, in input order
KeyTuple(entries) == TupleOf([ i \in 1..Len(entries) |-> KeyOf(entries[i]) ])

Indices(n) == TupleOf([ i \in 1..n |-> i ])

\* the distinct members of a tuple of keys, by first occurrence
FirstSeen(ks) ==
    LET order == SelectSeq(Indices(Len(ks)), LAMBDA i : \A j \in 1..(i - 1) : ks[j] # ks[i])
    IN  TupleOf([ i \in 1..Len(order) |-> ks[order[i]] ])

\* list(counts.keys()): the distinct keys, by first occurrence
KeysInOrder(entries) == FirstSeen(KeyTuple(entries))

\* groups[key]: the entries of a key, in input order
GroupOf(entries, key) == SelectSeq(entries, LAMBDA e : KeyOf(e) = key)

\* groups[key] for every key of keys
GroupsOf(entries, keys) == TupleOf([ i \in 1..Len(keys) |-> GroupOf(entries, keys[i]) ])

\* samples[key]: the first entry seen for a key
SampleOf(entries, key) == GroupOf(entries, key)[1]

\* np.diff of a list of numbers
Diff(ts) == TupleOf([ i \in 1..(Len(ts) - 1) |-> ts[i + 1] - ts[i] ])

SortedAsc(s) == StableSort(LAMBDA h, x : h <= x, s)

(***************************************************************************)
(* services/tier1_rules.py                                                 *)
(***************************************************************************)
ZSCORE_THRESHOLD      == 3
INTERVAL_MAX_AVG_S    == 360
INTERVAL_MAX_JITTER_S == 10
IQR_MAX               == 15
MIN_REQUESTS          == 10

\* ZscoreFires with the test z >= ZSCORE_THRESHOLD - 1
ZscoreFiresBelowThreshold(c, values) ==
    LET n == Len(values)
        S == SumSeq(values)
        Q == SumSq(values)
    IN  /\ n * Q - S * S > 0
        /\ n * c - S >= 0
        /\ (n * c - S) * (n * c - S)
              >= (ZSCORE_THRESHOLD - 1) * (ZSCORE_THRESHOLD - 1) * (n * Q - S * S)

\* z >= ZSCORE_THRESHOLD for a key with count c, where z = (c - mean) / std over
\* the counts of all keys and every z is 0 when std = 0.  With n keys, S the sum
\* and Q the sum of squares of the counts: mean = S/n, std^2 = (n*Q - S*S)/n^2.
ZscoreFires(c, values) ==
    LET n == Len(values)
        S == SumSeq(values)
        Q == SumSq(values)
    IN  /\ n * Q - S * S > 0
        /\ n * c - S >= 0
        /\ (n * c - S) * (n * c - S)
              >= ZSCORE_THRESHOLD * ZSCORE_THRESHOLD * (n * Q - S * S)

\* IntervalFires without the test on avg_interval
IntervalFiresJitterOnly(intervals) ==
    LET m == Len(intervals)
        S == SumSeq(intervals)
        Q == SumSq(intervals)
    IN  m * Q - S * S <= INTERVAL_MAX_JITTER_S * INTERVAL_MAX_JITTER_S * m * m

\* avg_interval <= INTERVAL_MAX_AVG_S and jitter <= INTERVAL_MAX_JITTER_S, with
\* avg_interval = np.mean(intervals) and jitter = np.std(intervals)
IntervalFires(intervals) ==
    LET m == Len(intervals)
        S == SumSeq(intervals)
        Q == SumSq(intervals)
    IN  /\ S <= INTERVAL_MAX_AVG_S * m
        /\ m * Q - S * S <= INTERVAL_MAX_JITTER_S * INTERVAL_MAX_JITTER_S * m * m

\* 4 * np.percentile(intervals, 25 * quarters), a being the intervals in
\* ascending order: linear interpolation between the order statistics around
\* position (m - 1) * quarters / 4
Percentile4(a, quarters) ==
    LET pos == (Len(a) - 1) * quarters
        lo  == pos \div 4 + 1
        r   == pos % 4
    IN  IF r = 0 THEN 4 * a[lo] ELSE 4 * a[lo] + r * (a[lo + 1] - a[lo])

\* q3 - q1 <= IQR_MAX for the intervals in ascending order
IqrWithin(a) == Percentile4(a, 3) - Percentile4(a, 1) <= 4 * IQR_MAX

\* iqr <= IQR_MAX with iqr = q3 - q1
IqrFires(intervals) == IqrWithin(SortedAsc(intervals))

\* {1: "low", 2: "high", 3: "critical"}.get(len(methods_fired), "critical")
SeverityOf(nmethods) ==
    IF nmethods = 1 THEN "low" ELSE IF nmethods = 2 THEN "high" ELSE "critical"

\* the methods one key fires, in the order the code appends them
MethodsFired(count, ts_list, values) ==
    LET intervals == Diff(ts_list)
    IN  (IF ZscoreFires(count, values) THEN << "zscore" >> ELSE << >>)
        \o (IF count >= MIN_REQUESTS /\ IntervalFires(intervals)
               THEN << "interval_threshold" >> ELSE << >>)
        \o (IF count >= MIN_REQUESTS /\ IqrFires(intervals)
               THEN << "iqr" >> ELSE << >>)

\* the names the evidence dict of one key holds
EvidenceOf(count, values) ==
    { "request_count" }
    \cup (IF ZscoreFires(count, values) THEN { "zscore", "pop_mean", "pop_std" } ELSE {})
    \cup (IF count >= MIN_REQUESTS
             THEN { "avg_interval_s", "jitter_s", "iqr_s", "q1_s", "q3_s" } ELSE {})

\* Tier1Result(...) of a key that fired the methods fired
Tier1Result(key, group, fired, values) ==
    [ src_ip |-> key[1], domain |-> key[2], username |-> group[1].username,
      methods_fired |-> fired, descriptions |-> fired,
      severity |-> SeverityOf(Len(fired)), request_count |-> Len(group),
      evidence |-> EvidenceOf(Len(group), values), sample_entry |-> group[1] ]

\* the Tier1Result of one key, before the len(methods_fired) < 2 test
Tier1Of(key, group, values) ==
    Tier1Result(key, group,
                MethodsFired(Len(group),
                             SortedAsc(TupleOf([ i \in 1..Len(group) |-> group[i].timestamp ])),
                             values),
                values)

\* Tier1Emits with the test "< 2" written "< 1"
Tier1EmitsOne(r) == Len(r.methods_fired) >= 1

\* the minimum number of methods a finding needs
Tier1Emits(r) == Len(r.methods_fired) >= 2

\* the loop over request_counts.items(), given each key's group
Tier1Loop(keys, groups) ==
    TupleOf([ i \in 1..Len(keys) |->
        Tier1Of(keys[i], groups[i], TupleOf([ k \in 1..Len(groups) |-> Len(groups[k]) ])) ])

\* the grouping of run_tier1, then the loop
Tier1Grouped(entries, keys) == Tier1Loop(keys, GroupsOf(entries, keys))

\* the result of every key, in key order, before the filter and the sort
Tier1All(entries) == Tier1Grouped(entries, KeysInOrder(entries))

run_tier1(entries) ==
    StableSort(LAMBDA h, x : Len(h.methods_fired) >= Len(x.methods_fired),
               SelectSeq(Tier1All(entries), Tier1Emits))

(***************************************************************************)
(* Arithmetic behind round(x, 4).  A rounded float is the integer number   *)
(* of its ten-thousandths.  Products that leave 32 bits are compared limb  *)
(* by limb in base 2^15.                                                   *)
(***************************************************************************)
Limb == 32768

\* x * y for 0 <= x, y < 2^30, most significant limb first
Mul(x, y) ==
    LET x1  == x \div Limb
        x0  == x % Limb
        y1  == y \div Limb
        y0  == y % Limb
        low == x0 * y0
        mid == x1 * y0 + x0 * y1 + low \div Limb
        top == x1 * y1 + mid \div Limb
    IN  << top \div Limb, top % Limb, mid % Limb, low % Limb >>

\* p <= q for two limb sequences of the same length
RECURSIVE LimbsLeq(_, _)
LimbsLeq(p, q) ==
    IF p = << >> THEN TRUE
    ELSE IF Head(p) # Head(q) THEN Head(p) < Head(q)
    ELSE LimbsLeq(Tail(p), Tail(q))

\* round(p / q, 4) in ten-thousandths, p >= 0, q > 0, ties to even
Round4(p, q) ==
    LET f == (10000 * p) \div q
        r == (10000 * p) % q
    IN  IF 2 * r > q THEN f + 1
        ELSE IF 2 * r = q THEN f + (f % 2)
        ELSE f

\* the largest c in lo..hi with (c * S)^2 <= 10^8 * V, which holds at lo
RECURSIVE FloorRoot(_, _, _, _)
FloorRoot(lo, hi, S, V) ==
    IF lo = hi THEN lo
    ELSE LET c == (lo + hi + 1) \div 2
         IN  IF LimbsLeq(Mul(c * S, c * S), Mul(100000000, V))
             THEN FloorRoot(c, hi, S, V)
             ELSE FloorRoot(lo, c - 1, S, V)

\* c or c + 1, whichever is nearer to 10^4 * sqrt(V) / S
Nearest(c, V, S) ==
    IF LimbsLeq(Mul((2 * c + 1) * S, (2 * c + 1) * S), Mul(400000000, V))
    THEN c + 1 ELSE c

\* round(sqrt(V) / S, 4) in ten-thousandths: the coefficient of variation of
\* k numbers with sum S > 0 and k * (sum of squares) - S * S = V (below 13.1)
RoundCv4(V, S) == Nearest(FloorRoot(0, 131071, S, V), V, S)

(***************************************************************************)
(* ml/feature_engineering.py                                               *)
(***************************************************************************)
GROUP_MIN == 30

FEATURE_NAMES ==
    << "avg_interval_s", "cv", "bytes_sent_cv", "unique_paths_ratio",
       "night_ratio", "request_count" >>

\* e.timestamp.hour < 8 or e.timestamp.hour >= 20
IsNight(ts) == LET hour == (ts \div 3600) % 24 IN hour < 8 \/ hour >= 20

\* entries.sort(key=lambda e: e.timestamp)
SortedEntries(group) == StableSort(LAMBDA h, x : h.timestamp <= x.timestamp, group)

\* HasFeatures without the test len(entries) < 30
HasFeaturesAnySize(group, entries) ==
    LET intervals == Diff(TupleOf([ i \in 1..Len(entries) |-> entries[i].timestamp ]))
    IN  Len(intervals) # 0 /\ SumSeq(intervals) # 0

\* the group survives the two "continue" tests of extract_features:
\* len(entries) < 30, and len(intervals) == 0 or np.mean(intervals) == 0
HasFeatures(group, entries) ==
    /\ Len(group) >= GROUP_MIN
    /\ LET intervals == Diff(TupleOf([ i \in 1..Len(entries) |-> entries[i].timestamp ]))
       IN  Len(intervals) # 0 /\ SumSeq(intervals) # 0

\* the FeatureVector of a group that survives; entries is the sorted group
FeatureVectorOf(key, group, entries) ==
    LET n         == Len(group)
        intervals == Diff(TupleOf([ i \in 1..n |-> entries[i].timestamp ]))
        m         == Len(intervals)
        S         == SumSeq(intervals)
        bytes     == TupleOf([ i \in 1..n |-> entries[i].bytes_sent ])
        B         == SumSeq(bytes)
        paths     == { PathOf(entries[i].url) : i \in 1..n }
        night     == Cardinality({ i \in 1..n : IsNight(entries[i].timestamp) })
    IN  [ src_ip             |-> key[1],
          domain             |-> key[2],
          username           |-> group[1].username,
          avg_interval_s     |-> Round4(S, m),
          cv                 |-> RoundCv4(m * SumSq(intervals) - S * S, S),
          bytes_sent_cv      |-> IF B > 0 THEN RoundCv4(n * SumSq(bytes) - B * B, B) ELSE 0,
          unique_paths_ratio |-> Round4(Cardinality(paths), n),
          night_ratio        |-> Round4(night, n),
          request_count      |-> n,
          sample_entry       |-> group[1] ]

\* the loop over groups.items(): entries[i] is groups[i] sorted by timestamp
FeatureLoop(keys, groups, entries) ==
    LET kept == SelectSeq(Indices(Len(keys)), LAMBDA i : HasFeatures(groups[i], entries[i]))
    IN  TupleOf([ j \in 1..Len(kept) |->
                   FeatureVectorOf(keys[kept[j]], groups[kept[j]], entries[kept[j]]) ])

FeaturesOfGroups(keys, groups) ==
    FeatureLoop(keys, groups, TupleOf([ i \in 1..Len(groups) |-> SortedEntries(groups[i]) ]))

\* the grouping of extract_features, then the loop
FeaturesGrouped(logs_, keys) == FeaturesOfGroups(keys, GroupsOf(logs_, keys))

extract_features(logs_) == FeaturesGrouped(logs_, KeysInOrder(logs_))

\* one row of to_matrix, columns in FEATURE_NAMES order
MatrixRow(v) ==
    << v.avg_interval_s, v.cv, v.bytes_sent_cv, v.unique_paths_ratio,
       v.night_ratio, v.request_count >>

to_matrix(vectors) == TupleOf([ i \in 1..Len(vectors) |-> MatrixRow(vectors[i]) ])

(***************************************************************************)
(* services/tier2_ml.py.  The artifact is opaque: scaler.transform followed *)
(* by model.score_samples is some function of the matrix row, kept in the  *)
(* variable forest.  A raw score and a stored confidence are integers in   *)
(* ten-thousandths; a confidence before rounding is the fraction num/den.  *)
(***************************************************************************)
CONFIDENCE_THRESHOLD == 7000

MaxOf(s) == CHOOSE x \in Range(s) : \A y \in Range(s) : y <= x
MinOf(s) == CHOOSE x \in Range(s) : \A y \in Range(s) : x <= y

\* normalize_scores that does not subtract the minimum
normalize_scores_no_min(scores) ==
    LET top == CHOOSE x \in Range(scores) : \A y \in Range(scores) : x <= y
        low == CHOOSE x \in Range(scores) : \A y \in Range(scores) : y <= x
    IN  TupleOf([ i \in 1..Len(scores) |->
                   IF top = low THEN [ num |-> 0, den |-> 1 ]
                   ELSE [ num |-> 0 - scores[i], den |-> low - top ] ])

\* normalize_scores that returns ones, not zeros, when max = min
normalize_scores_equal_ones(scores) ==
    LET flipped == TupleOf([ i \in 1..Len(scores) |-> 0 - scores[i] ])
        min_s   == MinOf(flipped)
        max_s   == MaxOf(flipped)
    IN  IF max_s = min_s
        THEN TupleOf([ i \in 1..Len(scores) |-> [ num |-> 1, den |-> 1 ] ])
        ELSE TupleOf([ i \in 1..Len(scores) |->
                        [ num |-> flipped[i] - min_s, den |-> max_s - min_s ] ])

\* normalize_scores: flipped = -scores, then (flipped - min) / (max - min),
\* or all zeros when max = min
normalize_scores(scores) ==
    LET flipped == TupleOf([ i \in 1..Len(scores) |-> 0 - scores[i] ])
        min_s   == MinOf(flipped)
        max_s   == MaxOf(flipped)
    IN  IF max_s = min_s
        THEN TupleOf([ i \in 1..Len(scores) |-> [ num |-> 0, den |-> 1 ] ])
        ELSE TupleOf([ i \in 1..Len(scores) |->
                        [ num |-> flipped[i] - min_s, den |-> max_s - min_s ] ])

\* AboveThreshold without the threshold test
AboveThresholdNoTest(conf) == conf.num >= 0

\* not (confidence < CONFIDENCE_THRESHOLD)
AboveThreshold(conf) == 10000 * conf.num >= CONFIDENCE_THRESHOLD * conf.den

\* SkipFilter that keeps every vector
SkipFilterKeepsAll(vectors, skip_keys) == vectors

\* the vectors left by "if skip_keys: vectors = [v for v in vectors if ...]"
SkipFilter(vectors, skip_keys) ==
    IF skip_keys # {}
    THEN SelectSeq(vectors, LAMBDA v : << v.src_ip, v.domain >> \notin skip_keys)
    ELSE vectors

Tier2Result(vector, conf, raw) ==
    [ src_ip |-> vector.src_ip, domain |-> vector.domain,
      username |-> vector.username,
      confidence |-> Round4(conf.num, conf.den),
      anomaly_score |-> raw,
      feature_vector |-> vector,
      sample_entry |-> vector.sample_entry ]

\* the loop over zip(vectors, raw_scores, confidences), then the sort
Tier2Loop(vectors, raw, confs) ==
    LET flagged == SelectSeq(Indices(Len(vectors)),
                             LAMBDA i : AboveThreshold(confs[i]))
    IN  StableSort(LAMBDA h, x : h.confidence >= x.confidence,
                   TupleOf([ j \in 1..Len(flagged) |->
                      Tier2Result(vectors[flagged[j]], confs[flagged[j]], raw[flagged[j]]) ]))

\* confidences = normalize_scores(raw_scores)
Tier2Scored(vectors, raw) == Tier2Loop(vectors, raw, normalize_scores(raw))

\* raw_scores = model.score_samples(scaler.transform(X))
score_samples(X, artifact) == TupleOf([ i \in 1..Len(X) |-> artifact[X[i]] ])

\* run_tier2 from the skip filter on
Tier2Filtered(vectors, artifact) ==
    IF vectors = << >> THEN << >>
    ELSE Tier2Scored(vectors, score_samples(to_matrix(vectors), artifact))

\* run_tier2 past the MODEL_PATH.exists() test, with the loaded artifact
run_tier2(entries, skip_keys, artifact) ==
    Tier2Filtered(SkipFilter(extract_features(entries), skip_keys), artifact)

(***************************************************************************)
(* services/tier3_agent.py                                                 *)
(***************************************************************************)
USE_MOCK == TRUE

KeysOfResults(rs) == { << rs[i].src_ip, rs[i].domain >> : i \in DOMAIN rs }

\* {(r.src_ip, r.domain): r for r in results}[key]: the last result of the key
MapGet(rs, key) ==
    rs[CHOOSE i \in DOMAIN rs :
          /\ << rs[i].src_ip, rs[i].domain >> = key
          /\ \A j \in DOMAIN rs : << rs[j].src_ip, rs[j].domain >> = key => j <= i]

\* explain_fn(t1, t2) raises: _claude_explanation always does, _mock_explanation never
ExplainRaises == ~use_mock

\* the branch of _mock_explanation that writes what_happened / why_suspicious
WhatHappened(has1, has2) ==
    IF has1 /\ has2 THEN "both" ELSE IF has1 THEN "tier1" ELSE "tier2"

\* the branch of _mock_explanation that writes recommended_action
RecommendedAction(confidence) ==
    IF confidence >= 9000 THEN "isolate"
    ELSE IF confidence >= 7000 THEN "block"
    ELSE "watch"

\* confidence = t2.confidence if t2 else 1.0
FusedConfidence(t2s, key) ==
    IF key \in KeysOfResults(t2s) THEN MapGet(t2s, key).confidence ELSE 10000

\* FusedSeverity that rates by confidence even with a Tier 1 finding
FusedSeverityByConfidence(t1s, key, confidence) ==
    IF confidence >= 9000 THEN "critical"
    ELSE IF confidence >= 7000 THEN "high"
    ELSE "medium"

\* severity = t1.severity if t1 else (critical >= 0.9, high >= 0.7, else medium)
FusedSeverity(t1s, key, confidence) ==
    IF key \in KeysOfResults(t1s) THEN MapGet(t1s, key).severity
    ELSE IF confidence >= 9000 THEN "critical"
    ELSE IF confidence >= 7000 THEN "high"
    ELSE "medium"

\* the Tier3Result the loop body appends for one key
Tier3Of(t1s, t2s, key) ==
    LET has1       == key \in KeysOfResults(t1s)
        has2       == key \in KeysOfResults(t2s)
        confidence == FusedConfidence(t2s, key)
    IN  [ src_ip |-> IF has1 THEN MapGet(t1s, key).src_ip ELSE MapGet(t2s, key).src_ip,
          domain |-> IF has1 THEN MapGet(t1s, key).domain ELSE MapGet(t2s, key).domain,
          username |-> IF has1 THEN MapGet(t1s, key).username
                       ELSE MapGet(t2s, key).username,
          what_happened |-> WhatHappened(has1, has2),
          recommended_action |-> RecommendedAction(confidence),
          confidence |-> confidence,
          severity |-> FusedSeverity(t1s, key, confidence),
          tier1_fired |-> has1,
          tier2_fired |-> has2 ]

\* results.sort(key=lambda r: r.confidence, reverse=True)
SortByConfidence(results) ==
    StableSort(LAMBDA h, x : h.confidence >= x.confidence, results)

\* run_tier3; order is the sequence in which "for key in all_keys" visits the
\* set all_keys, which the hash seed of the process decides
run_tier3(t1s, t2s, order) ==
    LET explained == SelectSeq(order, LAMBDA key : ~ExplainRaises)
        results   == TupleOf([ i \in 1..Len(explained) |-> Tier3Of(t1s, t2s, explained[i]) ])
    IN  SortByConfidence(results)

\* AllKeys without the keys of Tier 2
AllKeysTier1Only(t1s, t2s) == { << t1s[i].src_ip, t1s[i].domain >> : i \in DOMAIN t1s }

\* all_keys = set(tier1_map.keys()) | set(tier2_map.keys())
AllKeys(t1s, t2s) == KeysOfResults(t1s) \cup KeysOfResults(t2s)

(***************************************************************************)
(* Input files.  The other required columns (department, dst_ip, ...) are *)
(* str cells that are copied and never read.                               *)
(***************************************************************************)
\* bounds of the input family
MaxFill  == 20      \* single-request (ip, domain) pairs of background traffic
BigExtra == 10      \* requests of a heavy talker beyond the feature minimum

Row(ts, user, ip, url, bytes) ==
    [ timestamp |-> ts, username |-> user, src_ip |-> ip, url |-> url,
      status_code |-> 200, bytes_sent |-> bytes, bytes_received |-> 512,
      risk_score |-> 10, unparsable |-> {} ]

\* offset of the i-th request of a burst whose intervals alternate a, b, a, ...
Offset(a, b, i) == (a + b) * ((i - 1) \div 2) + a * ((i - 1) % 2)

\* the url of the i-th request: bare domain, domain + "/", then domain + "/x"
UrlOf(dom, i) ==
    IF i = 1 THEN dom
    ELSE IF i = 2 THEN dom \o << Slash >>
    ELSE dom \o << Slash, 120 >>

\* n requests of one host to one domain; the last one by a second user when mixed
Burst(ip, dom, prof, mixed) ==
    TupleOf([ i \in 1..prof.n |->
        Row(prof.t0 + Offset(prof.a, prof.b, i),
            IF mixed /\ i = prof.n THEN "bob" ELSE "alice",
            ip, UrlOf(dom, i), 300 + 20 * (i % 3)) ])

\* f hosts that each contact one domain once
Fill(f) ==
    TupleOf([ j \in 1..f |-> Row(7 * j, "carol", << 57 >>, << 96 + j, Slash, 121 >>, 100) ])

\* a row whose bytes_sent does not parse
JunkRow ==
    [ Row(5, "alice", << 49 >>, << 99, Slash, 120 >>, 0) EXCEPT !.unparsable = { "bytes_sent" } ]

\* a row whose timestamp does not parse
JunkTime ==
    [ Row(9, "dave", << 51 >>, << 101, Slash, 120 >>, 100) EXCEPT !.unparsable = { "timestamp" } ]

KeyA == << << 49 >>, << 99 >> >>       \* ("1", "c")
KeyB == << << 50 >>, << 99 >> >>       \* ("2", "c")
KeyC == << << 49 >>, << 100 >> >>      \* ("1", "d")

Absent   == [ n |-> 0,                a |-> 0,   b |-> 0,   t0 |-> 0 ]
Beacon   == [ n |-> GROUP_MIN + BigExtra,    a |-> 60,  b |-> 60,  t0 |-> 28000 ]
Steady   == [ n |-> GROUP_MIN,         a |-> 60,  b |-> 60,  t0 |-> 70000 ]
Human    == [ n |-> GROUP_MIN,         a |-> 10,  b |-> 710, t0 |-> 30000 ]
Frozen   == [ n |-> GROUP_MIN,         a |-> 0,   b |-> 0,   t0 |-> 50000 ]
Short    == [ n |-> MIN_REQUESTS,         a |-> 60,  b |-> 60,  t0 |-> 40000 ]
Slow     == [ n |-> MIN_REQUESTS,         a |-> 400, b |-> 400, t0 |-> 40000 ]
Bursty   == [ n |-> MIN_REQUESTS,         a |-> 0,   b |-> 20,  t0 |-> 40000 ]

Crawl    == [ n |-> GROUP_MIN,         a |-> 400, b |-> 400, t0 |-> 40000 ]
Few      == [ n |-> MIN_REQUESTS - 1,     a |-> 60,  b |-> 60,  t0 |-> 40000 ]

ProfilesA == { Beacon, Short, Bursty }
ProfilesB == { Absent, Steady, Slow, Frozen }
ProfilesC == { Absent, Human }

MakeRows(pa, pb, pc_, f, mixed) ==
    Burst(KeyA[1], KeyA[2], pa, mixed) \o << JunkRow >> \o Fill(f)
        \o Burst(KeyB[1], KeyB[2], pb, FALSE) \o Burst(KeyC[1], KeyC[2], pc_, FALSE)
        \o << JunkTime >>

GoodFiles ==
    { [ has_header |-> TRUE, fieldnames |-> FullHeader \cup {"extra"},
        rows |-> MakeRows(pa, pb, pc_, f, TRUE) ] :
        pa \in ProfilesA, pb \in ProfilesB, pc_ \in ProfilesC,
        f \in {0, MaxFill} }

\* files whose header is short of a column, or absent (an empty file)
BadFiles ==
    { [ has_header |-> TRUE, fieldnames |-> FullHeader \ {"url"},
        rows |-> Burst(KeyA[1], KeyA[2], Short, FALSE) ],
      [ has_header |-> FALSE, fieldnames |-> {}, rows |-> << >> ],
      [ has_header |-> TRUE, fieldnames |-> FullHeader, rows |-> << >> ] }

\* files whose header is short of one required column, one file per column
ShortHeaderFiles ==
    { [ has_header |-> TRUE, fieldnames |-> (FullHeader \ {c}) \cup {"extra"},
        rows |-> Burst(KeyA[1], KeyA[2], Short, FALSE) ] : c \in FullHeader }

\* files of one host and one domain whose requests are evenly spaced
SingleGroupFiles ==
    { [ has_header |-> TRUE, fieldnames |-> FullHeader,
        rows |-> Burst(KeyA[1], KeyA[2], prof, FALSE) ] : prof \in { Slow, Crawl, Few, Frozen } }

\* files of a heavy talker among a few hosts that each contact one domain
\* once: one key short of ZSCORE_THRESHOLD^2 + 1 keys, and one key beyond
FewKeyFiles ==
    { [ has_header |-> TRUE, fieldnames |-> FullHeader,
        rows |-> Burst(KeyA[1], KeyA[2], Beacon, FALSE) \o Fill(f) ] :
        f \in { ZSCORE_THRESHOLD * ZSCORE_THRESHOLD - 1,
                ZSCORE_THRESHOLD * ZSCORE_THRESHOLD + 1 } }

\* reorderings of the rows of a file
Orders == { "same", "reversed" }

Reorder(rows, how) ==
    IF how = "reversed" THEN Reverse(rows)
    ELSE rows



(***************************************************************************)
(* api/analysis.py and services/pipeline.py: the background task of an     *)
(* upload, one action per statement of _run_pipeline_task and per stage of *)
(* run_pipeline.  The task is run twice: the second upload holds the same  *)
(* rows, in the same or in another order, and meets the same artifact.     *)
(***************************************************************************)
\* the raw scores, in ten-thousandths, the artifact may give a row
Scores == { -4000, -4800, -5000 }

\* the matrix rows the artifact is asked to score for a file
RowsOf(f) ==
    UNION { Range(to_matrix(extract_features(
                parse_log_file([ f EXCEPT !.rows = Reorder(f.rows, how) ]).entries)))
            : how \in Orders }

NoFirst == << >>

\* files of one host and one domain, with and without a feature vector
SmallFiles ==
    { [ has_header |-> TRUE, fieldnames |-> FullHeader,
        rows |-> Burst(KeyA[1], KeyA[2], prof, TRUE) ] : prof \in ProfilesA }

\* feature counts of an artifact fitted with another feature set
OtherFeatureCounts == { Len(FEATURE_NAMES) - 1, Len(FEATURE_NAMES) + 1 }

\* Job(job_id, status="pending", filename): result and error default to None
NewJob == [ status |-> "pending", result |-> << >>, error |-> << >> ]

\* str(e) of the exceptions the stages raise, word by word
Message(exc, stage) ==
    IF exc = "TypeError"
        THEN << "argument", "of", "type", "'NoneType'", "is", "not", "iterable" >>
    ELSE IF exc = "FileNotFoundError"
        THEN << "Model", "not", "found", "at", "ml/models/isolation_forest.pkl.",
                "Run:", "python", "-m", "socrates.ml.train" >>
    ELSE IF stage = "parse"
        THEN << "Missing", "required", "columns:", "[...]" >>
    ELSE << "X", "has", "6", "features,", "but", "StandardScaler", "is",
            "expecting", "other", "features", "as", "input." >>

\* the files and artifacts a task may meet
InitInputs ==
    \/ file \in GoodFiles \cup BadFiles \cup ShortHeaderFiles \cup SingleGroupFiles
                  \cup FewKeyFiles
          /\ model_exists = TRUE
          /\ scaler_features = Len(FEATURE_NAMES)
    \/ file \in BadFiles \cup SmallFiles /\ model_exists = FALSE
          /\ scaler_features = Len(FEATURE_NAMES)
    \/ file \in BadFiles \cup SmallFiles /\ model_exists = TRUE
          /\ scaler_features \in OtherFeatureCounts

\* the state when upload_log has stored the file and created the job
InitTask ==
    /\ forest \in [ RowsOf(file) -> Scores ]
    /\ pc = "task"
    /\ logs = << >>
    /\ tier1_results = << >>
    /\ tier1_critical_keys = {}
    /\ tier2_results = << >>
    /\ tier3_results = << >>
    /\ result = << >>
    /\ error = None
    /\ run = 1
    /\ first = NoFirst
    /\ same_input = TRUE
    /\ job = NewJob
    /\ raised_in = None
    /\ on_disk = TRUE
    /\ polled = << >>
    /\ deviations = << >>
    /\ top_idx = << >>

Init ==
    /\ InitInputs
    /\ use_mock = USE_MOCK
    /\ InitTask

\* the order of the statements of run_pipeline: the stage after a stage
StageAfterSwapped(stage) ==
    IF stage = "parse" THEN "tier2"
    ELSE IF stage = "tier2" THEN "tier1"
    ELSE IF stage = "tier1" THEN "tier3"
    ELSE "return"

StageAfter(stage) ==
    IF stage = "parse" THEN "tier1"
    ELSE IF stage = "tier1" THEN "tier2"
    ELSE IF stage = "tier2" THEN "tier3"
    ELSE "return"

\* update_job(job_id, status="processing")
Processing ==
    /\ pc = "task"
    /\ job' = [ job EXCEPT !.status = "processing" ]
    /\ pc' = "parse"
    /\ UNCHANGED << polled, deviations, top_idx,
                    file, model_exists, forest, logs, tier1_results, tier1_critical_keys,
                    tier2_results, tier3_results, result, error, run, first, same_input,
                    use_mock, scaler_features, raised_in, on_disk >>

\* logs = parse_log_file(filepath)
Parse ==
    /\ pc = "parse"
    /\ LET parsed == parse_log_file(file)
       IN  IF parsed.raised # None
           THEN /\ pc' = "raised"
                /\ error' = parsed.raised
                /\ raised_in' = "parse"
                /\ logs' = logs
           ELSE /\ pc' = StageAfter("parse")
                /\ error' = error
                /\ raised_in' = raised_in
                /\ logs' = parsed.entries
    /\ UNCHANGED << polled, deviations, top_idx,
                    file, model_exists, forest, tier1_results, tier1_critical_keys,
                    tier2_results, tier3_results, result, run, first, same_input,
                    use_mock, scaler_features, job, on_disk >>

\* {(r.src_ip, r.domain) for r in tier1_results if len(r.methods_fired) == 3}
CriticalKeys(t1s) ==
    { << t1s[i].src_ip, t1s[i].domain >> : i \in { j \in DOMAIN t1s : Len(t1s[j].methods_fired) = 3 } }

\* tier1_results = run_tier1(logs), then the critical pairs
Tier1 ==
    /\ pc = "tier1"
    /\ tier1_results' = run_tier1(logs)
    /\ tier1_critical_keys' = CriticalKeys(tier1_results')
    /\ pc' = StageAfter("tier1")
    /\ UNCHANGED << polled, deviations, top_idx,
                    file, model_exists, forest, logs, tier2_results, tier3_results,
                    result, error, run, first, same_input, use_mock, scaler_features,
                    job, raised_in, on_disk >>

\* scaler.transform(X) of a non-empty batch raises ValueError when the scaler
\* was fitted with another number of features
TransformRaises(vectors, n_features) ==
    n_features # Len(FEATURE_NAMES) /\ vectors # << >>

\* tier2_results = run_tier2(logs, skip_keys=tier1_critical_keys)
Tier2 ==
    /\ pc = "tier2"
    /\ IF ~model_exists
       THEN /\ pc' = "raised"
            /\ error' = "FileNotFoundError"
            /\ raised_in' = "tier2"
            /\ tier2_results' = tier2_results
       ELSE IF TransformRaises(SkipFilter(extract_features(logs), tier1_critical_keys),
                               scaler_features)
       THEN /\ pc' = "raised"
            /\ error' = "ValueError"
            /\ raised_in' = "tier2"
            /\ tier2_results' = tier2_results
       ELSE /\ pc' = StageAfter("tier2")
            /\ error' = error
            /\ raised_in' = raised_in
            /\ tier2_results' = run_tier2(logs, tier1_critical_keys, forest)
    /\ UNCHANGED << polled, deviations, top_idx,
                    file, model_exists, forest, logs, tier1_results, tier1_critical_keys,
                    tier3_results, result, run, first, same_input, use_mock,
                    scaler_features, job, on_disk >>

\* tier3_results = run_tier3(tier1_results, tier2_results)
Tier3 ==
    /\ pc = "tier3"
    /\ \E order \in Perms(AllKeys(tier1_results, tier2_results)) :
          tier3_results' = run_tier3(tier1_results, tier2_results, order)
    /\ pc' = StageAfter("tier3")
    /\ UNCHANGED << polled, deviations, top_idx,
                    file, model_exists, forest, logs, tier1_results, tier1_critical_keys,
                    tier2_results, result, error, run, first, same_input, use_mock,
                    scaler_features, job, raised_in, on_disk >>

PipelineResult ==
    [ total_logs      |-> Len(logs),
      tier1_flagged   |-> Len(tier1_results),
      tier2_flagged   |-> Len(tier2_results),
      tier3_explained |-> Len(tier3_results),
      anomalies       |-> tier3_results ]

\* return PipelineResult(...)
Return ==
    /\ pc = "return"
    /\ result' = << PipelineResult >>
    /\ pc' = "done"
    /\ UNCHANGED << polled, deviations, top_idx,
                    file, model_exists, forest, logs, tier1_results, tier1_critical_keys,
                    tier2_results, tier3_results, error, run, first, same_input,
                    use_mock, scaler_features, job, raised_in, on_disk >>

\* update_job(job_id, status="complete", result=result): setattr(job, "status", ...)
CompleteStatus ==
    /\ pc = "done"
    /\ job' = [ job EXCEPT !.status = "complete" ]
    /\ pc' = "complete"
    /\ UNCHANGED << polled, deviations, top_idx,
                    file, model_exists, forest, logs, tier1_results, tier1_critical_keys,
                    tier2_results, tier3_results, result, error, run, first, same_input,
                    use_mock, scaler_features, raised_in, on_disk >>

\* ... setattr(job, "result", result); finally: os.remove(filepath)
CompleteResult ==
    /\ pc = "complete"
    /\ job' = [ job EXCEPT !.result = result ]
    /\ on_disk' = FALSE
    /\ pc' = "finished"
    /\ UNCHANGED << polled, deviations, top_idx,
                    file, model_exists, forest, logs, tier1_results, tier1_critical_keys,
                    tier2_results, tier3_results, result, error, run, first, same_input,
                    use_mock, scaler_features, raised_in >>

\* FailedStatus that leaves the except branch without writing the job
FailedStatusNotWritten ==
    /\ pc = "raised"
    /\ pc' = "finished"
    /\ on_disk' = FALSE
    /\ UNCHANGED << polled, deviations, top_idx,
                    file, model_exists, forest, logs, tier1_results, tier1_critical_keys,
                    tier2_results, tier3_results, result, error, run, first, same_input,
                    use_mock, scaler_features, job, raised_in >>

\* FailedStatus taken also after status complete was written
FailedStatusAfterComplete ==
    /\ pc \in { "raised", "complete" }
    /\ job' = [ job EXCEPT !.status = "failed" ]
    /\ pc' = "failed"
    /\ UNCHANGED << polled, deviations, top_idx,
                    file, model_exists, forest, logs, tier1_results, tier1_critical_keys,
                    tier2_results, tier3_results, result, error, run, first, same_input,
                    use_mock, scaler_features, raised_in, on_disk >>

\* except Exception as e: update_job(job_id, status="failed", error=str(e)):
\* setattr(job, "status", "failed")
FailedStatus ==
    /\ pc = "raised"
    /\ job' = [ job EXCEPT !.status = "failed" ]
    /\ pc' = "failed"
    /\ UNCHANGED << polled, deviations, top_idx,
                    file, model_exists, forest, logs, tier1_results, tier1_critical_keys,
                    tier2_results, tier3_results, result, error, run, first, same_input,
                    use_mock, scaler_features, raised_in, on_disk >>

\* ... setattr(job, "error", str(e)); finally: os.remove(filepath)
FailedError ==
    /\ pc = "failed"
    /\ job' = [ job EXCEPT !.error = << Message(error, raised_in) >> ]
    /\ on_disk' = FALSE
    /\ pc' = "finished"
    /\ UNCHANGED << polled, deviations, top_idx,
                    file, model_exists, forest, logs, tier1_results, tier1_critical_keys,
                    tier2_results, tier3_results, result, error, run, first, same_input,
                    use_mock, scaler_features, raised_in >>

\* a second upload of the same rows, served by a new process
Again ==
    /\ run = 1
    /\ pc = "finished"
    /\ \E how \in Orders :
          /\ file' = [ file EXCEPT !.rows = Reorder(file.rows, how) ]
          /\ same_input' = (how = "same")
    /\ first' = << [ result |-> result, error |-> error,
                    tier1 |-> tier1_results, tier2 |-> tier2_results,
                    vectors |-> extract_features(logs) ] >>
    /\ run' = 2
    /\ pc' = "task"
    /\ logs' = << >>
    /\ tier1_results' = << >>
    /\ tier1_critical_keys' = {}
    /\ tier2_results' = << >>
    /\ tier3_results' = << >>
    /\ result' = << >>
    /\ error' = None
    /\ job' = NewJob
    /\ raised_in' = None
    /\ on_disk' = TRUE
    /\ polled' = << >>
    /\ UNCHANGED << deviations, top_idx, model_exists, forest, use_mock, scaler_features >>

Next ==
    \/ Processing \/ Parse \/ Tier1 \/ Tier2 \/ Tier3 \/ Return
    \/ CompleteStatus \/ CompleteResult \/ FailedStatus \/ FailedError
    \/ Again

Spec == Init /\ [][Next]_vars

\* the configuration of tier3_agent with USE_MOCK set to False
InitClaude ==
    /\ file \in BadFiles \cup SmallFiles
    /\ model_exists = TRUE
    /\ scaler_features = Len(FEATURE_NAMES)
    /\ use_mock = FALSE
    /\ InitTask

SpecClaude == InitClaude /\ [][Next]_vars

(***************************************************************************)
(* api/analysis.py, get_results: polls of the job, served by threads of the *)
(* pool while the background task runs in another.                         *)
(***************************************************************************)
\* the JobStatusResponse of get_results for a job
JobStatusResponse(j) ==
    [ status |-> j.status,
      error  |-> j.error,
      result |-> IF j.status = "complete" /\ j.result # << >> THEN j.result ELSE << >> ]

\* GET /analysis/{job_id}
Poll ==
    /\ pc \notin { "top", "top_done" }
    /\ polled' = << JobStatusResponse(job) >>
    /\ UNCHANGED << deviations, top_idx, pc,
                    file, model_exists, forest, logs, tier1_results, tier1_critical_keys,
                    tier2_results, tier3_results, result, error, run, first, same_input,
                    use_mock, scaler_features, job, raised_in, on_disk >>

InitPoll ==
    /\ file \in BadFiles \cup SmallFiles
    /\ model_exists = TRUE
    /\ scaler_features = Len(FEATURE_NAMES)
    /\ use_mock = USE_MOCK
    /\ InitTask

NextPoll == Next \/ Poll

SpecPoll == InitPoll /\ [][NextPoll]_vars

\* the positions of the task
Positions ==
    { "task", "parse", "tier1", "tier2", "tier3", "return", "done", "complete",
      "raised", "failed", "finished" }

\* the task of the second upload has ended: no statement is left to execute
Terminated == pc = "finished" /\ run = 2

\* a statement of a task (or the start of the second one) is executed: the
\* steps of Next are the steps that change pc, and one is possible in every
\* state that is not Terminated
TaskStep == ~Terminated /\ pc' \in Positions \ { pc }

\* the thread that runs the task is scheduled until the task has ended,
\* however many polls are served meanwhile
LiveSpec == InitPoll /\ [][NextPoll]_vars /\ WF_pc(TaskStep)

(***************************************************************************)
(* services/tier2_ml.py, get_top_features.  The scaler is an artifact: the  *)
(* function sees it only through deviations = np.abs(scaler.transform(raw)) *)
(* of one vector, a number per feature, drawn here from a few levels so     *)
(* that equal deviations happen.                                           *)
(***************************************************************************)
\* the default of the parameter n
TopN == 3

\* the largest level of a deviation
MaxDeviation == 2

\* np.argsort(deviations): the indices in ascending order of deviation.  The
\* default kind is not a stable sort, so indices of equal deviations may come
\* out in any order
Argsort(devs) ==
    { order \in Perms(DOMAIN devs) :
        \A i \in 1..(Len(order) - 1) : devs[order[i]] <= devs[order[i + 1]] }

\* np.argsort(deviations)[::-1][:n]
TopIdx(order, n) == SubSeq(Reverse(order), 1, n)

\* [FEATURE_NAMES[i] for i in top_idx]
TopNames(idx) == TupleOf([ i \in 1..Len(idx) |-> FEATURE_NAMES[idx[i]] ])

\* a call of get_top_features is about to be made on a vector
InitTop ==
    /\ deviations \in [ 1..Len(FEATURE_NAMES) -> 0..MaxDeviation ]
    /\ top_idx = << >>
    /\ pc = "top"
    /\ file = [ has_header |-> TRUE, fieldnames |-> FullHeader, rows |-> << >> ]
    /\ model_exists = TRUE
    /\ scaler_features = Len(FEATURE_NAMES)
    /\ use_mock = USE_MOCK
    /\ forest = << >>
    /\ logs = << >>
    /\ tier1_results = << >>
    /\ tier1_critical_keys = {}
    /\ tier2_results = << >>
    /\ tier3_results = << >>
    /\ result = << >>
    /\ error = None
    /\ run = 1
    /\ first = NoFirst
    /\ same_input = TRUE
    /\ job = NewJob
    /\ raised_in = None
    /\ on_disk = TRUE
    /\ polled = << >>

\* top_idx = np.argsort(deviations)[::-1][:n]
GetTopFeatures ==
    /\ pc = "top"
    /\ \E order \in Argsort(deviations) : top_idx' = << TopIdx(order, TopN) >>
    /\ pc' = "top_done"
    /\ UNCHANGED << polled, deviations,
                    file, model_exists, forest, logs, tier1_results, tier1_critical_keys,
                    tier2_results, tier3_results, result, error, run, first, same_input,
                    use_mock, scaler_features, job, raised_in, on_disk >>

NextTop == GetTopFeatures

SpecTop == InitTop /\ [][NextTop]_vars

(***************************************************************************)
(* Properties                                                              *)
(***************************************************************************)
FindingKey(r) == << r.src_ip, r.domain >>

\* C1: once run_tier1 has returned, every finding lists at least two methods,
\* and a key for which fewer than two methods fire has no finding.
C1_Tier1NeedsTwoMethods ==
    pc = "tier2" =>
        /\ \A i \in DOMAIN tier1_results : Len(tier1_results[i].methods_fired) >= 2
        /\ LET all == Tier1All(logs)
           IN  \A i \in DOMAIN all :
                  Len(all[i].methods_fired) < 2
                     => FindingKey(all[i]) \notin KeysOfResults(tier1_results)

\* run_tier1 has returned a finding, and left out a key that fired one method
C1_Witness ==
    /\ pc = "tier2"
    /\ tier1_results # << >>
    /\ LET all == Tier1All(logs)
       IN  \E i \in DOMAIN all :
              /\ Len(all[i].methods_fired) = 1
              /\ FindingKey(all[i]) \notin KeysOfResults(tier1_results)

\* the batch run_tier2 scored: the vectors left by the skip filter
ScoredVectors == SkipFilter(extract_features(logs), tier1_critical_keys)

\* the confidences normalize_scores gave a batch, before rounding
ConfidencesOf(vectors) ==
    normalize_scores(TupleOf([ i \in 1..Len(vectors) |-> forest[MatrixRow(vectors[i])] ]))

\* C2: once run_tier2 has returned, every finding has confidence >= 0.70, and
\* a scored row whose normalised confidence is below 0.70 has no finding.
C2_Tier2AboveThreshold ==
    pc = "tier3" =>
        /\ \A i \in DOMAIN tier2_results :
              tier2_results[i].confidence >= CONFIDENCE_THRESHOLD
        /\ LET vectors == ScoredVectors
           IN  vectors # << >> =>
                  LET confs == ConfidencesOf(vectors)
                  IN  \A i \in DOMAIN vectors :
                         10000 * confs[i].num < CONFIDENCE_THRESHOLD * confs[i].den
                            => FindingKey(vectors[i]) \notin KeysOfResults(tier2_results)

\* run_tier2 has returned a finding and has dropped a row below the threshold
C2_Witness ==
    /\ pc = "tier3"
    /\ tier2_results # << >>
    /\ Len(tier2_results) < Len(ScoredVectors)

\* C3: the list run_tier3 returns holds exactly one finding for each key of
\* the Tier 1 findings or of the Tier 2 findings, and none for another key.
C3_Tier3OnePerKey ==
    pc \in { "return", "done" } =>
        /\ \A key \in KeysOfResults(tier1_results) \cup KeysOfResults(tier2_results) :
              Cardinality({ i \in DOMAIN tier3_results :
                              FindingKey(tier3_results[i]) = key }) = 1
        /\ \A i \in DOMAIN tier3_results :
              FindingKey(tier3_results[i])
                 \in KeysOfResults(tier1_results) \cup KeysOfResults(tier2_results)

\* run_tier3 has fused a key only Tier 1 found with a key only Tier 2 found
C3_Witness ==
    /\ pc = "done"
    /\ KeysOfResults(tier1_results) \ KeysOfResults(tier2_results) # {}
    /\ KeysOfResults(tier2_results) \ KeysOfResults(tier1_results) # {}
    /\ Len(tier3_results) >= 2

\* C4: every finding of the pipeline result stems from a Tier 1 finding with
\* at least two methods fired or has confidence >= 0.70.
C4_Tier3Justified ==
    pc = "done" =>
        \A i \in DOMAIN result[1].anomalies :
            LET f == result[1].anomalies[i]
            IN  \/ \E j \in DOMAIN tier1_results :
                      /\ FindingKey(tier1_results[j]) = FindingKey(f)
                      /\ Len(tier1_results[j].methods_fired) >= 2
                \/ f.confidence >= 7000

\* the result holds a finding of Tier 2 alone below full confidence
C4_Witness ==
    /\ pc = "done"
    /\ \E i \in DOMAIN result[1].anomalies :
          /\ ~result[1].anomalies[i].tier1_fired
          /\ result[1].anomalies[i].confidence < 10000

\* C5: a Tier 3 finding carries the confidence of the Tier 2 finding of its
\* key, or 1.0 without one, and the severity of the Tier 1 finding of its key,
\* or without one critical from 0.9, high from 0.7 and medium below.
C5_FusedConfidenceSeverity ==
    pc \in { "return", "done" } =>
        \A i \in DOMAIN tier3_results :
            LET f  == tier3_results[i]
                j1 == { j \in DOMAIN tier1_results : FindingKey(tier1_results[j]) = FindingKey(f) }
                j2 == { j \in DOMAIN tier2_results : FindingKey(tier2_results[j]) = FindingKey(f) }
            IN  /\ IF j2 # {}
                   THEN \A j \in j2 : f.confidence = tier2_results[j].confidence
                   ELSE f.confidence = 10000
                /\ IF j1 # {}
                   THEN \A j \in j1 : f.severity = tier1_results[j].severity
                   ELSE f.severity = IF f.confidence >= 9000 THEN "critical"
                                     ELSE IF f.confidence >= 7000 THEN "high"
                                     ELSE "medium"

\* one result fuses a key of both tiers, a key of Tier 1 alone, and a key of
\* Tier 2 alone that is rated high
C5_Witness ==
    /\ pc = "done"
    /\ \E i \in DOMAIN tier3_results :
          tier3_results[i].tier1_fired /\ tier3_results[i].tier2_fired
    /\ \E i \in DOMAIN tier3_results :
          tier3_results[i].tier1_fired /\ ~tier3_results[i].tier2_fired
    /\ \E i \in DOMAIN tier3_results :
          /\ ~tier3_results[i].tier1_fired
          /\ tier3_results[i].severity = "high"

\* C6: Tier 2 is run with the keys of the three-method Tier 1 findings as
\* skip_keys and returns no finding for them, so a pipeline finding of such a
\* key has tier2_fired false and confidence 1.0.
C6_CriticalKeysSkipped ==
    LET critical == { FindingKey(tier1_results[j]) :
                        j \in { k \in DOMAIN tier1_results :
                                   Len(tier1_results[k].methods_fired) = 3 } }
    IN  /\ pc \in { "tier2", "tier3", "return", "done" } => tier1_critical_keys = critical
        /\ pc \in { "tier3", "return", "done" } =>
              KeysOfResults(tier2_results) \cap critical = {}
        /\ pc = "done" =>
              \A i \in DOMAIN result[1].anomalies :
                  FindingKey(result[1].anomalies[i]) \in critical =>
                     /\ ~result[1].anomalies[i].tier2_fired
                     /\ result[1].anomalies[i].confidence = 10000

\* a critical key that has a feature vector was skipped while Tier 2 flagged
\* another key
C6_Witness ==
    /\ pc = "done"
    /\ tier2_results # << >>
    /\ \E v \in Range(extract_features(logs)) : FindingKey(v) \in tier1_critical_keys

\* C7: the list run_tier3 returns is ordered by descending confidence, and
\* findings of equal confidence are ordered by their key (src_ip, domain).
C7_RankedByConfidenceThenKey ==
    pc \in { "return", "done" } =>
        \A i \in 1..(Len(tier3_results) - 1) :
            LET f == tier3_results[i]
                g == tier3_results[i + 1]
            IN  \/ f.confidence > g.confidence
                \/ f.confidence = g.confidence /\ KeyLess(FindingKey(f), FindingKey(g))

\* what C8 compares of a finding
Essence(f) ==
    [ key |-> FindingKey(f), username |-> f.username, severity |-> f.severity,
      confidence |-> f.confidence ]

\* C8: the pipeline gives a reordered input the same feature vectors and the
\* same Tier 3 findings (key, username, severity, confidence), ranked in the
\* same order up to the order among findings of equal confidence.
C8_OrderIndependent ==
    (run = 2 /\ pc = "done" /\ first[1].error = None) =>
        /\ Range(first[1].vectors) = Range(extract_features(logs))
        /\ { Essence(f) : f \in Range(first[1].result[1].anomalies) }
              = { Essence(f) : f \in Range(result[1].anomalies) }
        /\ Len(first[1].result[1].anomalies) = Len(result[1].anomalies)
        /\ \A i \in DOMAIN result[1].anomalies :
              first[1].result[1].anomalies[i].confidence = result[1].anomalies[i].confidence

\* C9: two invocations on the same input with the same artifact return the
\* same result, the ordered list of Tier 3 findings included.
C9_Idempotent ==
    (run = 2 /\ same_input /\ pc = "done" /\ first[1].error = None) =>
        result = first[1].result

\* C10: every normalised confidence of a scored batch lies in [0, 1], and when
\* run_tier2 returns a finding the largest confidence returned is exactly 1.0.
C10_ConfidenceRange ==
    pc = "tier3" =>
        /\ LET vectors == ScoredVectors
           IN  vectors # << >> =>
                  \A c \in Range(ConfidencesOf(vectors)) :
                      c.den > 0 /\ 0 <= c.num /\ c.num <= c.den
        /\ \A i \in DOMAIN tier2_results :
              0 <= tier2_results[i].confidence /\ tier2_results[i].confidence <= 10000
        /\ tier2_results # << >> =>
              \E i \in DOMAIN tier2_results :
                  /\ tier2_results[i].confidence = 10000
                  /\ \A j \in DOMAIN tier2_results :
                        tier2_results[j].confidence <= tier2_results[i].confidence

\* run_tier2 has returned a finding of full and one of lower confidence
C10_Witness ==
    /\ pc = "tier3"
    /\ \E i \in DOMAIN tier2_results : tier2_results[i].confidence = 10000
    /\ \E i \in DOMAIN tier2_results : tier2_results[i].confidence < 10000

\* C11: the stages of run_pipeline run in the order parse, Tier 1, Tier 2,
\* Tier 3, each entered only from the stage before it, and a stage that has
\* returned is not written again: Tier 2 runs on the finished Tier 1 output,
\* Tier 3 on the finished Tier 1 and Tier 2 outputs.
C11_StagesInOrder ==
    [][ /\ pc' = "tier1" => pc = "parse"
        /\ pc' = "tier2" => pc = "tier1"
        /\ pc' = "tier3" => pc = "tier2"
        /\ pc' = "return" => pc = "tier3"
        /\ pc \in { "tier2", "tier3", "return" } =>
              tier1_results' = tier1_results /\ tier1_critical_keys' = tier1_critical_keys
        /\ pc \in { "tier3", "return" } => tier2_results' = tier2_results
      ]_vars

\* the four stages have run and each has produced output
C11_Witness ==
    /\ pc = "return"
    /\ logs # << >>
    /\ tier1_results # << >>
    /\ tier2_results # << >>
    /\ tier3_results # << >>

\* the spellings under which a message can name a stage of the pipeline
StageWords(stage) ==
    IF stage = "parse" THEN { "parse", "Parse", "parser", "parsing", "Parsing" }
    ELSE IF stage = "tier1" THEN { "tier1", "Tier1", "tier_1", "Tier-1" }
    ELSE IF stage = "tier2" THEN { "tier2", "Tier2", "tier_2", "Tier-2" }
    ELSE { "tier3", "Tier3", "tier_3", "Tier-3" }

\* C12: when a stage of the pipeline has raised, the task ends with the job in
\* status failed, with no PipelineResult stored in it, and with an error text
\* that holds the message and names the stage that raised.
C12_FailedJobNamesStage ==
    pc = "finished" /\ raised_in # None =>
        /\ job.status = "failed"
        /\ job.result = << >>
        /\ job.error # << >>
        /\ Range(job.error[1]) \cap StageWords(raised_in) # {}

\* C13: a task whose file holds no data row, with or without a header row, and
\* which meets a usable artifact, completes without error, and the result it
\* stores has total_logs = 0 and no finding.
C13_EmptyInputCompletes ==
    ( /\ pc = "finished"
      /\ file.rows = << >>
      /\ model_exists
      /\ scaler_features = Len(FEATURE_NAMES) ) =>
        /\ job.status = "complete"
        /\ job.error = << >>
        /\ job.result # << >>
        /\ job.result[1].total_logs = 0
        /\ job.result[1].anomalies = << >>

\* the keys with two or more entries that all carry one timestamp
ZeroIntervalKeys(entries) ==
    { k \in Range(KeyTuple(entries)) :
        LET group == GroupOf(entries, k)
        IN  /\ Len(group) >= 2
            /\ \A i \in 1..Len(group) : group[i].timestamp = group[1].timestamp }

\* C14: a key whose requests all carry the same timestamp has no feature
\* vector, fires neither interval_threshold nor iqr in Tier 1, and so is not
\* among the Tier 1 findings.
C14_ZeroIntervalsSkipped ==
    pc = "tier2" =>
        \A k \in ZeroIntervalKeys(logs) :
            /\ \A v \in Range(extract_features(logs)) : FindingKey(v) # k
            /\ \A r \in Range(tier1_results) :
                  FindingKey(r) = k =>
                      /\ "interval_threshold" \notin Range(r.methods_fired)
                      /\ "iqr" \notin Range(r.methods_fired)
            /\ \A r \in Range(tier1_results) : FindingKey(r) # k

\* C15: when the explainer in use raises for the keys it is given, run_tier3
\* returns normally and every key of a Tier 1 or a Tier 2 finding still has
\* its Tier 3 finding, so the pipeline goes on to return them.
C15_ExplainerFallsBack ==
    pc = "return" /\ ExplainRaises =>
        /\ raised_in = None
        /\ KeysOfResults(tier3_results) = AllKeys(tier1_results, tier2_results)

\* C16: a task whose file parses and which meets a missing artifact, or an
\* artifact fitted with another number of features, ends failed by an error
\* raised in Tier 2 before any row is scored, whatever the file holds.
C16_BadArtifactFails ==
    ( /\ pc = "finished"
      /\ raised_in # "parse"
      /\ ~model_exists \/ scaler_features # Len(FEATURE_NAMES) ) =>
        /\ raised_in = "tier2"
        /\ job.status = "failed"
        /\ tier2_results = << >>

\* C17: parse_log_file raises, and yields no entry, exactly when the header
\* lacks one of the required columns; a header with every required column is
\* accepted, and columns beyond the required ones change nothing in the
\* entries read.
C17_HeaderAccepted ==
    pc \notin { "task", "parse" } =>
        /\ raised_in = "parse" <=> ~(Range(REQUIRED_COLUMNS) \subseteq file.fieldnames)
        /\ raised_in = "parse" => logs = << >> /\ error # None
        /\ raised_in # "parse" =>
              logs = parse_log_file([ file EXCEPT !.fieldnames = Range(REQUIRED_COLUMNS) ]).entries

\* a file whose header has the required columns and one more has been parsed
\* into entries
C17_Witness ==
    /\ pc = "tier1"
    /\ Range(REQUIRED_COLUMNS) \subseteq file.fieldnames
    /\ file.fieldnames # Range(REQUIRED_COLUMNS)
    /\ logs # << >>

\* the positions of the rows whose timestamp and integer cells all parse
ParsableRows(rows) ==
    { i \in DOMAIN rows :
        \A c \in { "timestamp", "status_code", "bytes_sent", "bytes_received", "risk_score" } :
            c \notin rows[i].unparsable }

\* C18: the entries parse_log_file returns are the entries of exactly the rows
\* whose timestamp and integer cells all parse, in the order of the rows; the
\* rows that do not parse are left out and raise nothing.
C18_RowsKeptInOrder ==
    pc = "tier1" =>
        /\ error = None
        /\ Len(logs) = Cardinality(ParsableRows(file.rows))
        /\ \A i \in ParsableRows(file.rows) :
              logs[Cardinality({ k \in ParsableRows(file.rows) : k <= i })]
                  = LogEntry(file.rows[i])

\* a file with rows that parse before and after rows that do not has been read
C18_Witness ==
    /\ pc = "tier1"
    /\ \E i, j, k, l \in DOMAIN file.rows :
          /\ i < j /\ j < k /\ k < l
          /\ { i, k } \subseteq ParsableRows(file.rows)
          /\ { j, l } \cap ParsableRows(file.rows) = {}
    /\ logs # << >>

\* the number of entries of a key
CountOf(entries, key) == Cardinality({ i \in DOMAIN entries : KeyOf(entries[i]) = key })

C20_EvidenceOfEveryMethod ==
    pc = "tier2" =>
        \A r \in Range(tier1_results) :
            /\ { "zscore", "pop_mean", "pop_std" } \subseteq r.evidence
            /\ r.request_count >= MIN_REQUESTS =>
                  { "avg_interval_s", "jitter_s", "iqr_s", "q1_s", "q3_s" } \subseteq r.evidence

\* the intervals between the requests of the entries, taken in time order
IntervalsOf(entries) ==
    Diff(SortedAsc(TupleOf([ i \in 1..Len(entries) |-> entries[i].timestamp ])))

\* the entries are two or more requests of one key, evenly spaced in time
SingleConstantGroup(entries) ==
    /\ Len(entries) >= 2
    /\ \A i \in DOMAIN entries : KeyOf(entries[i]) = KeyOf(entries[1])
    /\ \A d \in { IntervalsOf(entries) } : \A i \in DOMAIN d : d[i] = d[1]

\* the methods the only key of the entries fires, before the test on their number
OnlyKeyFired(entries) == Range(Tier1All(entries)[1].methods_fired)

\* C21 as claimed: for entries that are one group with a constant interval,
\* every feature vector has cv = 0 and the group fires both interval_threshold
\* and iqr.
C21_ConstantIntervalFiresBoth ==
    pc = "tier2" /\ SingleConstantGroup(logs) =>
        /\ \A v \in Range(extract_features(logs)) : v.cv = 0
        /\ { "interval_threshold", "iqr" } \subseteq OnlyKeyFired(logs)

\* C21 amended: for entries that are one group with a constant interval, every
\* feature vector has cv = 0; with at least MIN_REQUESTS requests iqr fires,
\* and interval_threshold fires exactly when the interval is at most
\* INTERVAL_MAX_AVG_S; with fewer requests no method fires.
C21_ConstantIntervalFires ==
    pc = "tier2" /\ SingleConstantGroup(logs) =>
        /\ \A v \in Range(extract_features(logs)) : v.cv = 0
        /\ Len(logs) >= MIN_REQUESTS =>
              /\ "iqr" \in OnlyKeyFired(logs)
              /\ "interval_threshold" \in OnlyKeyFired(logs)
                    <=> IntervalsOf(logs)[1] <= INTERVAL_MAX_AVG_S
        /\ Len(logs) < MIN_REQUESTS => OnlyKeyFired(logs) = {}

\* Tier 1 has run on one evenly spaced group that has a feature vector with
\* cv = 0 and is a finding by interval_threshold and iqr
C21_Witness ==
    /\ pc = "tier2"
    /\ SingleConstantGroup(logs)
    /\ IntervalsOf(logs)[1] > 0
    /\ \E v \in Range(extract_features(logs)) : v.cv = 0
    /\ \E r \in Range(tier1_results) :
          { "interval_threshold", "iqr" } \subseteq Range(r.methods_fired)

\* C22: get_top_features returns three distinct names of FEATURE_NAMES, in
\* decreasing order of deviation, and of two features with the same deviation
\* the one earlier in FEATURE_NAMES comes first: the name at place i has
\* exactly i - 1 features ahead of it in that order.
C22_TopFeaturesRanked ==
    pc = "top_done" =>
        /\ Len(TopNames(top_idx[1])) = TopN
        /\ Range(TopNames(top_idx[1])) \subseteq Range(FEATURE_NAMES)
        /\ \A i \in 1..TopN :
              Cardinality({ k \in DOMAIN deviations :
                              \/ deviations[k] > deviations[top_idx[1][i]]
                              \/ /\ deviations[k] = deviations[top_idx[1][i]]
                                 /\ k < top_idx[1][i] }) = i - 1

\* the part of a url after its first '/', the empty string when it has none
PathAfterSlash(url) ==
    IF \E i \in DOMAIN url : url[i] = Slash
        THEN SubSeq(url, FirstSlash(url) + 1, Len(url))
    ELSE << >>

\* C23: the unique_paths_ratio of every feature vector is, to four decimals,
\* the number of distinct paths of the entries of its key divided by its
\* request_count, the path of an entry being the part of its url after the
\* first '/' and the empty string for a url without '/'.
C23_UniquePathsRatio ==
    pc = "tier2" =>
        \A v \in Range(extract_features(logs)) :
            v.unique_paths_ratio =
                Round4(Cardinality({ PathAfterSlash(e.url) : e \in Range(GroupOf(logs, FindingKey(v))) }),
                       v.request_count)

\* evaluation/evaluate_tier2.py, main: tier2_results = run_tier2(logs), then
\* tier2_ips = set(r.src_ip for r in tier2_results)
EvaluatorTier2Ips(entries, artifact) ==
    { r.src_ip : r \in Range(run_tier2(entries, {}, artifact)) }

\* C24: the src_ips the evaluator attributes to Tier 2 are the src_ips of the
\* Tier 2 findings the pipeline produces on the same entries with the same
\* artifact.
C24_EvaluatorScoresPipeline ==
    pc = "tier3" =>
        EvaluatorTier2Ips(logs, forest) = { r.src_ip : r \in Range(tier2_results) }

\* C25: whatever the interleaving of the task with the polls, a poll that
\* reads status complete also reads the PipelineResult of the job.
C25_CompleteHasResult ==
    polled # << >> /\ polled[1].status = "complete" => polled[1].result # << >>

\* C26: the status of a job changes only from pending to processing and from
\* processing to complete or to failed; in particular a job that is complete
\* or failed keeps its status.  (A step of Again creates the job of another
\* upload.)
C26_StatusTransitions ==
    [][ run' = run /\ job'.status # job.status =>
            \/ job.status = "pending" /\ job'.status = "processing"
            \/ job.status = "processing" /\ job'.status \in { "complete", "failed" }
      ]_vars

\* a task has ended with its job complete and the result stored
C26_Witness ==
    /\ pc = "finished"
    /\ job.status = "complete"
    /\ job.result # << >>

\* C27: a job whose task has started, and so is in status processing, comes
\* to status complete or failed, and a task that has ended has left its job
\* in one of the two.
C27_JobReachesTerminalStatus ==
    /\ (job.status = "processing") ~> (job.status \in { "complete", "failed" })
    /\ [](pc = "finished" => job.status \in { "complete", "failed" })

\* a task whose pipeline raised has ended with its job failed
C27_Witness ==
    /\ pc = "finished"
    /\ raised_in # None
    /\ job.status = "failed"

\* the number of distinct (src_ip, domain) keys of the entries
NumKeys(entries) == Cardinality(Range(KeyTuple(entries)))

\* C28: when the entries have fewer than 10 distinct keys, the z-score method
\* fires for no key, run_tier1 reports no finding with three methods or with
\* severity critical, and no key is skipped in Tier 2.
C28_FewKeysNoZscore ==
    pc = "tier2" /\ NumKeys(logs) < 10 =>
        /\ \A r \in Range(Tier1All(logs)) : "zscore" \notin Range(r.methods_fired)
        /\ \A r \in Range(tier1_results) :
              Len(r.methods_fired) < 3 /\ r.severity # "critical"
        /\ tier1_critical_keys = {}

\* Tier 1 has run on nine keys, one of them with far more requests than the
\* others and reported, and has no critical key
C28_Witness ==
    /\ pc = "tier2"
    /\ NumKeys(logs) = 9
    /\ \E r \in Range(tier1_results) : r.request_count >= GROUP_MIN
    /\ \E k \in Range(KeyTuple(logs)) : CountOf(logs, k) = 1
    /\ tier1_critical_keys = {}

\* C29: every Tier 3 finding of a result run_pipeline returns, and so of a
\* result stored in a job, has severity high or critical.
C29_SeverityHighOrCritical ==
    /\ \A a \in Range(tier3_results) : a.severity \in { "high", "critical" }
    /\ result # << >> =>
          \A a \in Range(result[1].anomalies) : a.severity \in { "high", "critical" }
    /\ job.result # << >> =>
          \A a \in Range(job.result[1].anomalies) : a.severity \in { "high", "critical" }

\* a result has been stored that holds a finding of Tier 2 alone and a
\* finding of Tier 1, with both severities present
C29_Witness ==
    /\ pc = "finished"
    /\ job.result # << >>
    /\ \E a, b \in Range(job.result[1].anomalies) :
          /\ ~a.tier1_fired /\ a.tier2_fired
          /\ b.tier1_fired
          /\ { a.severity, b.severity } = { "high", "critical" }

\* C30: when the raw scores of the batch Tier 2 scores are all equal, as they
\* are for a batch of one vector, every confidence is 0 and run_tier2 returns
\* no finding, whatever the score.
C30_EqualScoresNoFinding ==
    pc = "tier3" =>
        \A vectors \in { ScoredVectors } :
            ( /\ vectors # << >>
              /\ \A i, j \in DOMAIN vectors :
                    forest[MatrixRow(vectors[i])] = forest[MatrixRow(vectors[j])] ) =>
                /\ \A c \in Range(ConfidencesOf(vectors)) : c.num = 0
                /\ tier2_results = << >>

\* Tier 2 has scored a batch of two or more vectors with one raw score, and
\* has returned no finding
C30_Witness ==
    /\ pc = "tier3"
    /\ Len(ScoredVectors) >= 2
    /\ \A i, j \in DOMAIN ScoredVectors :
          forest[MatrixRow(ScoredVectors[i])] = forest[MatrixRow(ScoredVectors[j])]
    /\ \E i \in DOMAIN ScoredVectors : forest[MatrixRow(ScoredVectors[i])] = -5000
    /\ tier2_results = << >>

====
